---- MODULE Spec2Model ----
(***************************************************************************)
(* Model of src/src/hello_server/server.py: the four tools registered by   *)
(* create_server() on the FastMCP server (fetch_friends_data,              *)
(* get_expenses_last_n_days, create_splitwise_expense,                     *)
(* create_splitwise_group).                                                *)
(*                                                                         *)
(* One invocation runs at a time.  The remote Splitwise client (sobj) is   *)
(* the environment: every remote call either raises or returns, and what   *)
(* it returns is chosen nondeterministically.  An action is the remote     *)
(* call together with all the local code of the handler that runs after    *)
(* it, up to the next remote call or up to the return.                     *)
(*                                                                         *)
(* Numbers: amount is a non-negative integer-valued float; a quotient is   *)
(* kept as an exact fraction [num, den] in lowest terms (the rounding of   *)
(* binary floating point is not modelled).                                 *)
(***************************************************************************)
EXTENDS Integers, Sequences, FiniteSets, TLC

\* ------------------------------------------------------------------ bounds
MaxParticipants == 2
MaxAmount == 3
MaxFriends == 2
MaxMembers == 2
MaxExpenses == 2
MaxBalances == 1

\* ------------------------------------------------------------ value sets
Names == {"Alice", "Bob", "Carol"}
LastNames == {"X", "Y"}
Emails == {"a@x.com", "b@y.com"}
GroupNames == {"Trip"}
Descriptions == {"Dinner"}
\* num_days: small windows, and one beyond what timedelta(days=...) accepts
NumDaysValues == {0, 7, 1000000000}

SeqsUpTo(S, n) == UNION {[1..k -> S] : k \in 0..n}

\* Python's None for an object returned by the remote client, and an object
\* carrying an id.
NoneRec == [none |-> TRUE, id |-> 0]
Obj(id) == [none |-> FALSE, id |-> id]

\* The `errors` value a remote write returns: None, an empty collection or a
\* non-empty one.
ErrorsValues == {"None", "Empty", "NonEmpty"}
\* truth value of `errors` (lines 150, 160: `if errors:`)
bool(errors) == errors = "NonEmpty"

\* ------------------------------------------------------------- fractions
RECURSIVE GCD(_, _)
GCD(a, b) == IF b = 0 THEN a ELSE GCD(b, a % b)

Rat(a, n) == LET g == GCD(a, n) IN [num |-> a \div g, den |-> n \div g]
RatAdd(x, y) == Rat(x.num * y.den + y.num * x.den, x.den * y.den)
Zero == Rat(0, 1)

\* amount / len(participants), line 113; len > 0 (len = 0 raises before)
truediv(amount, len) == Rat(amount, len)

\* str(x) of a float prints a decimal text with a point ("100.0"); the
\* literal "0" of line 128 has none.  A share string is kept as the kind of
\* text and the number the text denotes.
str(x) == [text |-> "float", val |-> x]
Literal0 == [text |-> "int", val |-> Zero]

\* ------------------------------------------------------ Python dict (name -> id)
EmptyDict == <<>>
DictSet(d, k, v) == [n \in (DOMAIN d) \cup {k} |-> IF n = k THEN v ELSE d[n]]

\* --------------------------------------------------------------- results
NoResult == [kind |-> "none"]
ReturnedDict(v) == [kind |-> "returned", type |-> "dict", value |-> v]
ReturnedList(v) == [kind |-> "returned", type |-> "list", value |-> v]
Raised(e) == [kind |-> "raised", exc |-> e]

\* The classes `except Exception` catches, among those the handlers meet.
Exception ==
    {"SplitwiseException", "ZeroDivisionError", "IndexError",
     "AttributeError", "OverflowError"}
RemoteFailure == "SplitwiseException"

UnexpectedError(e) == ReturnedDict([error |-> <<"Unexpected error", e>>])

\* A handler that lets everything but the remote client's own exception
\* through.
except_only_client(e) ==
    IF e = RemoteFailure THEN UnexpectedError(e) ELSE Raised(e)

\* lines 66-67
except_fetch_friends_data(e) ==
    IF e \in Exception THEN UnexpectedError(e) ELSE Raised(e)
\* lines 98-99
except_get_expenses_last_n_days(e) ==
    IF e \in Exception THEN UnexpectedError(e) ELSE Raised(e)
\* lines 138-139
except_create_splitwise_expense(e) ==
    IF e \in Exception THEN UnexpectedError(e) ELSE Raised(e)
\* lines 165-166
except_create_splitwise_group(e) ==
    IF e \in Exception THEN UnexpectedError(e) ELSE Raised(e)

\* ------------------------------------------------------------------ state
VARIABLES
    op,            \* the tool being executed ("none" before the first call)
    pc,            \* "idle", the remote call the handler is about to make, "done"
    args,          \* the arguments of the invocation
    contri,        \* create_splitwise_expense: contri
    me,            \* create_splitwise_expense: me
    dict_info,     \* create_splitwise_expense: dict_info
    users_list,    \* create_splitwise_expense: users_list
    group,         \* create_splitwise_group: group, as returned by createGroup
    i,             \* position of the running for loop (1-based)
    user,          \* create_splitwise_group: the User built for position i
    added_users,   \* create_splitwise_group: added_users
    expenses,      \* get_expenses_last_n_days: expenses
    dict_exp,      \* get_expenses_last_n_days: dict_exp of position i
    all_exp,       \* get_expenses_last_n_days: all_exp
    requests,      \* the remote calls made by this invocation, in order
    result         \* what the invocation gave back to the hosting runtime

vars == <<op, pc, args, contri, me, dict_info, users_list, group, i, user,
          added_users, expenses, dict_exp, all_exp, requests, result>>

locals_expense == <<contri, me, dict_info, users_list>>
locals_group == <<group, user, added_users>>
locals_reader == <<expenses, dict_exp, all_exp>>

Init ==
    /\ op = "none"
    /\ pc = "idle"
    /\ args = <<>>
    /\ contri = Zero
    /\ me = NoneRec
    /\ dict_info = EmptyDict
    /\ users_list = <<>>
    /\ group = NoneRec
    /\ i = 0
    /\ user = <<>>
    /\ added_users = <<>>
    /\ expenses = <<>>
    /\ dict_exp = <<>>
    /\ all_exp = <<>>
    /\ requests = <<>>
    /\ result = NoResult

\* The hosting runtime dispatches a tool when none is running.
Dispatchable == pc = "idle"

Request(call, payload, raised) ==
    [call |-> call, payload |-> payload, raised |-> raised]

\* Leave the handler with result r.
Finish(r) ==
    /\ pc' = "done"
    /\ result' = r

\* ------------------------------------------------ create_splitwise_expense
\* Keeps an entry once it is there (first one wins).
RECURSIVE add_friends_keep_first(_, _, _)
add_friends_keep_first(d, friends, k) ==
    IF k > Len(friends) THEN d
    ELSE add_friends_keep_first(
            IF friends[k].first \in DOMAIN d THEN d
            ELSE DictSet(d, friends[k].first, friends[k].id),
            friends, k + 1)

\* lines 120-121: the friends, in roster order, written into the name -> id
\* dictionary that already holds the current user (line 119)
RECURSIVE add_friends(_, _, _)
add_friends(d, friends, k) ==
    IF k > Len(friends) THEN d
    ELSE add_friends(DictSet(d, friends[k].first, friends[k].id), friends, k + 1)

\* Gives the payer the equal share as paid share instead of the total.
ExpenseUser_pays_contri(item, paid_by, amount, c, d) ==
    [id |-> d[item],
     paid_share |-> IF item = paid_by THEN str(c) ELSE Literal0,
     owed_share |-> str(c)]

\* lines 126-129: the ExpenseUser of one participant
ExpenseUser(item, paid_by, amount, c, d) ==
    [id |-> d[item],
     paid_share |-> IF item = paid_by THEN str(Rat(amount, 1)) ELSE Literal0,
     owed_share |-> str(c)]

\* Divides the total among the retained entries only.
RECURSIVE build_users_list_retained(_, _, _, _, _, _)
build_users_list_retained(participants, paid_by, amount, c, d, k) ==
    IF k > Len(participants) THEN <<>>
    ELSE LET item == participants[k]
             kept == Cardinality({j \in 1..Len(participants) : participants[j] \in DOMAIN d})
             rest == build_users_list_retained(participants, paid_by, amount, c, d, k + 1)
         IN IF item \notin DOMAIN d THEN rest
            ELSE <<ExpenseUser(item, paid_by, amount, truediv(amount, kept), d)>> \o rest

\* lines 123-130: the loop over participants, from position k on
RECURSIVE build_users_list(_, _, _, _, _, _)
build_users_list(participants, paid_by, amount, c, d, k) ==
    IF k > Len(participants) THEN <<>>
    ELSE LET item == participants[k]
             rest == build_users_list(participants, paid_by, amount, c, d, k + 1)
         IN IF item \notin DOMAIN d THEN rest
            ELSE <<ExpenseUser(item, paid_by, amount, c, d)>> \o rest

\* lines 103-113
Invoke_create_splitwise_expense ==
    /\ Dispatchable
    /\ \E participants \in SeqsUpTo(Names, MaxParticipants), paid_by \in Names,
          amount \in 0..MaxAmount, description \in Descriptions :
        /\ op' = "create_splitwise_expense"
        /\ args' = [participants |-> participants, paid_by |-> paid_by,
                    amount |-> amount, description |-> description]
        /\ IF Len(participants) = 0
           THEN /\ Finish(except_create_splitwise_expense("ZeroDivisionError"))
                /\ contri' = Zero
           ELSE /\ pc' = "getCurrentUser"
                /\ result' = NoResult
                /\ contri' = truediv(amount, Len(participants))
    /\ UNCHANGED <<me, dict_info, users_list, i, requests, locals_group, locals_reader>>

MeId == 1
FriendId(k) == k + 1
Rosters ==
    {[k \in 1..Len(s) |-> [first |-> s[k], id |-> FriendId(k)]] :
        s \in SeqsUpTo(Names, MaxFriends)}

\* lines 118-119
getCurrentUser ==
    /\ pc = "getCurrentUser"
    /\ \/ /\ requests' = Append(requests, Request("getCurrentUser", <<>>, TRUE))
          /\ Finish(except_create_splitwise_expense(RemoteFailure))
          /\ UNCHANGED <<me, dict_info>>
       \/ \E first \in Names :
            /\ requests' = Append(requests, Request("getCurrentUser", <<>>, FALSE))
            /\ me' = [first |-> first, id |-> MeId]
            /\ dict_info' = DictSet(EmptyDict, first, MeId)
            /\ pc' = "getFriends"
            /\ UNCHANGED result
    /\ UNCHANGED <<op, args, contri, users_list, i, locals_group, locals_reader>>

\* lines 120-132
getFriends_create_splitwise_expense ==
    /\ pc = "getFriends"
    /\ op = "create_splitwise_expense"
    /\ \/ /\ requests' = Append(requests, Request("getFriends", <<>>, TRUE))
          /\ Finish(except_create_splitwise_expense(RemoteFailure))
          /\ UNCHANGED <<dict_info, users_list>>
       \/ \E friends \in Rosters :
            LET d == add_friends(dict_info, friends, 1)
            IN /\ requests' = Append(requests, Request("getFriends", friends, FALSE))
               /\ dict_info' = d
               /\ users_list' = build_users_list(args.participants, args.paid_by,
                                                 args.amount, contri, d, 1)
               /\ pc' = "createExpense"
               /\ UNCHANGED result
    /\ UNCHANGED <<op, args, contri, me, i, locals_group, locals_reader>>

ExpenseId == 1

\* Tries the write again when the remote reports errors.
after_createExpense_retry(expense, errors) ==
    IF errors = "None"
    THEN [pc |-> "done",
          result |-> IF expense.none
                     THEN except_create_splitwise_expense("AttributeError")
                     ELSE ReturnedDict([message |-> "Expense added successfully!",
                                        expense_id |-> expense.id])]
    ELSE [pc |-> "createExpense", result |-> NoResult]

\* lines 135-137
after_createExpense(expense, errors) ==
    IF errors = "None"
    THEN [pc |-> "done",
          result |-> IF expense.none
                     THEN except_create_splitwise_expense("AttributeError")
                     ELSE ReturnedDict([message |-> "Expense added successfully!",
                                        expense_id |-> expense.id])]
    ELSE [pc |-> "done",
          result |-> ReturnedDict([error |-> <<"Failed to add expense">>,
                                   details |-> errors])]

\* lines 133-137; the draft is the Expense built by lines 108-111 and 132
createExpense ==
    /\ pc = "createExpense"
    /\ LET draft == [currency_code |-> "INR",
                     cost |-> str(Rat(args.amount, 1)),
                     description |-> args.description,
                     users |-> users_list]
       IN \/ /\ requests' = Append(requests, Request("createExpense", draft, TRUE))
             /\ Finish(except_create_splitwise_expense(RemoteFailure))
          \/ \E expense \in {NoneRec, Obj(ExpenseId)}, errors \in ErrorsValues :
               /\ requests' = Append(requests,
                                     Request("createExpense", draft, FALSE)
                                        @@ [errors |-> errors])
               /\ pc' = after_createExpense(expense, errors).pc
               /\ result' = after_createExpense(expense, errors).result
    /\ UNCHANGED <<op, args, locals_expense, i, locals_group, locals_reader>>

\* -------------------------------------------------- create_splitwise_group
GroupId == 1
\* the id the remote gives the user added at position k
UserId(k) == k

\* line 164
group_record(a, g, added) ==
    IF g.none THEN except_create_splitwise_group("AttributeError")
    ELSE ReturnedDict([message |-> "Group created successfully",
                       group_id |-> g.id,
                       group_name |-> a.group_name,
                       members_added |-> added])

\* Stops the loop at the shortest of the three lists.
for_i_shortest(a, g, k, added) ==
    IF k > Len(a.first_names) \/ k > Len(a.last_names) \/ k > Len(a.emails)
    THEN [pc |-> "done", result |-> group_record(a, g, added), user |-> <<>>]
    ELSE IF g.none
         THEN [pc |-> "done", user |-> <<>>,
               result |-> except_create_splitwise_group("AttributeError")]
         ELSE [pc |-> "addUserToGroup", result |-> NoResult,
               user |-> <<a.first_names[k], a.last_names[k], a.emails[k]>>]

\* lines 154-159 up to the remote call, and line 164: the loop head at
\* position k.  range(len(first_names)) bounds the loop; last_names[k] and
\* emails[k] are read without a check; group.getId() is the call's argument.
for_i(a, g, k, added) ==
    IF k > Len(a.first_names)
    THEN [pc |-> "done", result |-> group_record(a, g, added), user |-> <<>>]
    ELSE IF k > Len(a.last_names) \/ k > Len(a.emails)
         THEN [pc |-> "done", user |-> <<>>,
               result |-> except_create_splitwise_group("IndexError")]
         ELSE IF g.none
              THEN [pc |-> "done", user |-> <<>>,
                    result |-> except_create_splitwise_group("AttributeError")]
              ELSE [pc |-> "addUserToGroup", result |-> NoResult,
                    user |-> <<a.first_names[k], a.last_names[k], a.emails[k]>>]

\* lines 143-148
Invoke_create_splitwise_group ==
    /\ Dispatchable
    /\ \E group_name \in GroupNames,
          first_names \in SeqsUpTo(Names, MaxMembers),
          last_names \in SeqsUpTo(LastNames, MaxMembers),
          emails \in SeqsUpTo(Emails, MaxMembers) :
        /\ op' = "create_splitwise_group"
        /\ args' = [group_name |-> group_name, first_names |-> first_names,
                    last_names |-> last_names, emails |-> emails]
        /\ pc' = "createGroup"
    /\ UNCHANGED <<result, requests, i, locals_expense, locals_group, locals_reader>>

\* lines 149-153, then the loop head
createGroup ==
    /\ pc = "createGroup"
    /\ \/ /\ requests' = Append(requests, Request("createGroup", args.group_name, TRUE))
          /\ Finish(except_create_splitwise_group(RemoteFailure))
          /\ UNCHANGED <<group, i, user, added_users>>
       \/ \E g \in {NoneRec, Obj(GroupId)}, errors \in ErrorsValues :
            /\ requests' = Append(requests,
                                  Request("createGroup", args.group_name, FALSE)
                                     @@ [reported |-> bool(errors)])
            /\ group' = g
            /\ IF bool(errors)
               THEN /\ Finish(ReturnedDict([error |-> <<"Failed to create group", errors>>]))
                    /\ UNCHANGED <<i, user, added_users>>
               ELSE LET nxt == for_i(args, g, 1, <<>>)
                    IN /\ i' = 1
                       /\ added_users' = <<>>
                       /\ user' = nxt.user
                       /\ pc' = nxt.pc
                       /\ result' = nxt.result
    /\ UNCHANGED <<op, args, locals_expense, locals_reader>>

\* Names the first member of the list, whichever member failed.
add_user_failure_names_first(a, k, errors) ==
    ReturnedDict([error |-> <<"Failed to add user", a.first_names[1], a.last_names[1], errors>>])

\* line 161
add_user_failure(a, k, errors) ==
    ReturnedDict([error |-> <<"Failed to add user", a.first_names[k], a.last_names[k], errors>>])

\* Ignores the errors of a member and goes on with the next one.
after_addUserToGroup_no_stop(a, g, k, added, success, u, errors) ==
    IF success /\ u.none
    THEN [pc |-> "done", i |-> k, user |-> <<>>, added_users |-> added,
          result |-> except_create_splitwise_group("AttributeError")]
    ELSE LET added2 == IF success
                       THEN Append(added, [Id |-> u.id,
                                           Name |-> <<a.first_names[k], a.last_names[k]>>,
                                           Email |-> a.emails[k]])
                       ELSE added
             nxt == for_i(a, g, k + 1, added2)
         IN [pc |-> nxt.pc, i |-> k + 1, user |-> nxt.user,
             added_users |-> added2, result |-> nxt.result]

\* lines 160-163, then the loop head at the next position
after_addUserToGroup(a, g, k, added, success, u, errors) ==
    IF bool(errors)
    THEN [pc |-> "done", i |-> k, user |-> <<>>, added_users |-> added,
          result |-> add_user_failure(a, k, errors)]
    ELSE IF success /\ u.none
         THEN [pc |-> "done", i |-> k, user |-> <<>>, added_users |-> added,
               result |-> except_create_splitwise_group("AttributeError")]
         ELSE LET added2 == IF success
                            THEN Append(added, [Id |-> u.id,
                                                Name |-> <<a.first_names[k], a.last_names[k]>>,
                                                Email |-> a.emails[k]])
                            ELSE added
                  nxt == for_i(a, g, k + 1, added2)
              IN [pc |-> nxt.pc, i |-> k + 1, user |-> nxt.user,
                  added_users |-> added2, result |-> nxt.result]

\* lines 159-163
addUserToGroup ==
    /\ pc = "addUserToGroup"
    /\ \/ /\ requests' = Append(requests, Request("addUserToGroup", user, TRUE))
          /\ Finish(except_create_splitwise_group(RemoteFailure))
          /\ UNCHANGED <<i, user, added_users>>
       \/ \E success \in BOOLEAN, u \in {NoneRec, Obj(UserId(i))}, errors \in ErrorsValues :
            LET nxt == after_addUserToGroup(args, group, i, added_users, success, u, errors)
            IN /\ requests' = Append(requests,
                                     Request("addUserToGroup", user, FALSE)
                                        @@ [reported |-> bool(errors)])
               /\ pc' = nxt.pc
               /\ i' = nxt.i
               /\ user' = nxt.user
               /\ added_users' = nxt.added_users
               /\ result' = nxt.result
    /\ UNCHANGED <<op, args, group, locals_expense, locals_reader>>

\* ------------------------------------------------------ fetch_friends_data
BalanceAmounts == {"0.0", "12.5"}
FriendRosters ==
    {[k \in 1..Len(s) |-> [first |-> s[k].first, last |-> s[k].last,
                           id |-> FriendId(k), balances |-> s[k].balances]] :
        s \in SeqsUpTo([first : Names, last : {"", "X"},
                        balances : SeqsUpTo(BalanceAmounts, MaxBalances)],
                       MaxFriends)}

\* lines 59-64: the record of one friend
friend_record(friend) ==
    [Name |-> IF friend.last # "" THEN <<friend.first, " ", friend.last>>
              ELSE <<friend.first>>,
     Id |-> friend.id,
     Balance |-> IF Len(friend.balances) # 0
                 THEN [amount |-> friend.balances[1]]
                 ELSE [number |-> 0]]

\* lines 52-55
Invoke_fetch_friends_data ==
    /\ Dispatchable
    /\ op' = "fetch_friends_data"
    /\ args' = <<>>
    /\ pc' = "getFriends"
    /\ UNCHANGED <<result, requests, i, locals_expense, locals_group, locals_reader>>

\* lines 56-67
getFriends_fetch_friends_data ==
    /\ pc = "getFriends"
    /\ op = "fetch_friends_data"
    /\ \/ /\ requests' = Append(requests, Request("getFriends", <<>>, TRUE))
          /\ Finish(except_fetch_friends_data(RemoteFailure))
       \/ \E my_friends \in FriendRosters :
            /\ requests' = Append(requests, Request("getFriends", <<>>, FALSE))
            /\ Finish(ReturnedList([k \in 1..Len(my_friends) |-> friend_record(my_friends[k])]))
    /\ UNCHANGED <<op, args, i, locals_expense, locals_group, locals_reader>>

\* ------------------------------------------------- get_expenses_last_n_days
\* timedelta(days=n) accepts |n| <= 999999999 and raises OverflowError beyond
timedelta_overflows(days) == days > 999999999 \/ days < -999999999

\* strftime("%Y-%m-%d") of today shifted by a number of days
date_text(shift) == [format |-> "%Y-%m-%d", today_plus |-> shift]

ExpenseLists ==
    {[k \in 1..Len(s) |-> [id |-> k, created_by |-> s[k].created_by,
                           group_id |-> s[k].group_id]] :
        s \in SeqsUpTo([created_by : {NoneRec, Obj(MeId)}, group_id : {0, GroupId}],
                       MaxExpenses)}

\* lines 80-89 up to the remote call of line 91, and line 97: the loop head at
\* position k
for_exp(exps, k, all) ==
    IF k > Len(exps)
    THEN [pc |-> "done", result |-> ReturnedList(all), dict_exp |-> <<>>]
    ELSE IF exps[k].created_by.none
         THEN [pc |-> "done", dict_exp |-> <<>>,
               result |-> except_get_expenses_last_n_days("AttributeError")]
         ELSE [pc |-> "getGroup", result |-> NoResult,
               dict_exp |-> [Id |-> exps[k].id, Created_by |-> exps[k].created_by.id]]

\* lines 71-76
Invoke_get_expenses_last_n_days ==
    /\ Dispatchable
    /\ \E num_days \in NumDaysValues :
        /\ op' = "get_expenses_last_n_days"
        /\ args' = [num_days |-> num_days]
        /\ IF timedelta_overflows(num_days)
           THEN Finish(except_get_expenses_last_n_days("OverflowError"))
           ELSE /\ pc' = "getExpenses"
                /\ result' = NoResult
    /\ UNCHANGED <<requests, i, locals_expense, locals_group, locals_reader>>

\* lines 77-89
getExpenses ==
    /\ pc = "getExpenses"
    /\ LET range == [dated_after |-> date_text(0 - args.num_days),
                     dated_before |-> date_text(1)]
       IN \/ /\ requests' = Append(requests, Request("getExpenses", range, TRUE))
             /\ Finish(except_get_expenses_last_n_days(RemoteFailure))
             /\ UNCHANGED <<i, expenses, dict_exp, all_exp>>
          \/ \E exps \in ExpenseLists :
               LET nxt == for_exp(exps, 1, <<>>)
               IN /\ requests' = Append(requests, Request("getExpenses", range, FALSE))
                  /\ expenses' = exps
                  /\ all_exp' = <<>>
                  /\ i' = 1
                  /\ dict_exp' = nxt.dict_exp
                  /\ pc' = nxt.pc
                  /\ result' = nxt.result
    /\ UNCHANGED <<op, args, locals_expense, locals_group>>

\* lines 90-95, then the loop head at the next position
getGroup ==
    /\ pc = "getGroup"
    /\ \E outcome \in {"raised", "None", "group"} :
         LET name == IF outcome = "group" THEN "Group Name of the group"
                     ELSE "Non-group expenses"
             all == Append(all_exp, dict_exp @@ [Group_Name |-> name])
             nxt == for_exp(expenses, i + 1, all)
         IN /\ requests' = Append(requests,
                                  Request("getGroup", expenses[i].group_id, outcome = "raised"))
            /\ all_exp' = all
            /\ i' = i + 1
            /\ dict_exp' = nxt.dict_exp
            /\ pc' = nxt.pc
            /\ result' = nxt.result
    /\ UNCHANGED <<op, args, expenses, locals_expense, locals_group>>

\* ----------------------------------------------------------- hosting runtime
\* The result is handed to the caller; the invocation's frame is gone and the
\* server waits for the next call.
Respond ==
    /\ pc = "done"
    /\ op' = "none"
    /\ pc' = "idle"
    /\ args' = <<>>
    /\ contri' = Zero
    /\ me' = NoneRec
    /\ dict_info' = EmptyDict
    /\ users_list' = <<>>
    /\ group' = NoneRec
    /\ i' = 0
    /\ user' = <<>>
    /\ added_users' = <<>>
    /\ expenses' = <<>>
    /\ dict_exp' = <<>>
    /\ all_exp' = <<>>
    /\ requests' = <<>>
    /\ result' = NoResult

Next ==
    \/ Invoke_fetch_friends_data
    \/ getFriends_fetch_friends_data
    \/ Invoke_get_expenses_last_n_days
    \/ getExpenses
    \/ getGroup
    \/ Invoke_create_splitwise_expense
    \/ getCurrentUser
    \/ getFriends_create_splitwise_expense
    \/ createExpense
    \/ Invoke_create_splitwise_group
    \/ createGroup
    \/ addUserToGroup
    \/ Respond

Spec == Init /\ [][Next]_vars

\* ================================================================ properties
IsExpenseOp == op = "create_splitwise_expense"
IsGroupOp == op = "create_splitwise_group"
Calls(c) == SelectSeq(requests, LAMBDA r : r.call = c)
Last(q) == q[Len(q)]
Done == pc = "done"

HasErrorKey(r) == r.kind = "returned" /\ r.type = "dict" /\ "error" \in DOMAIN r.value
IsUnexpected(r, e) == HasErrorKey(r) /\ r.value.error = <<"Unexpected error", e>>

IsSuccessPayload(o, r) ==
    /\ r.kind = "returned"
    /\ \/ o \in {"fetch_friends_data", "get_expenses_last_n_days"} /\ r.type = "list"
       \/ /\ o = "create_splitwise_expense" /\ r.type = "dict"
          /\ DOMAIN r.value = {"message", "expense_id"}
       \/ /\ o = "create_splitwise_group" /\ r.type = "dict"
          /\ DOMAIN r.value = {"message", "group_id", "group_name", "members_added"}

\* C1: whatever the arguments and wherever a remote call raises, a finished
\* invocation of any of the four tools has returned a value, either its success
\* payload or a mapping with an "error" key; no exception leaves the tool.
C1_NoExceptionCrossesFacade ==
    /\ result.kind # "raised"
    /\ Done => (HasErrorKey(result) \/ IsSuccessPayload(op, result))

\* a remote call that is not the first one raised, and the tool returned an error
C1_Witness ==
    /\ Done /\ Len(requests) >= 2 /\ Last(requests).raised
    /\ HasErrorKey(result)

\* the names of L that are keys of M, in the order of L
Retained(L, M) == SelectSeq(L, LAMBDA x : x \in DOMAIN M)

\* C2: the draft handed to create-expense has one entry per element of the
\* participant list whose name is a key of the identity mapping, in list order,
\* and each entry is (M[name], paid = A if name = paid_by else 0,
\* owed = A / len(L)).
C2_DraftEntries ==
    IsExpenseOp =>
        \A n \in 1..Len(requests) :
            requests[n].call = "createExpense" =>
                LET users == requests[n].payload.users
                    L == args.participants
                    kept == Retained(L, dict_info)
                IN /\ Len(users) = Len(kept)
                   /\ \A k \in 1..Len(kept) :
                        /\ users[k].id = dict_info[kept[k]]
                        /\ users[k].paid_share.val.den = 1
                        /\ users[k].paid_share.val.num =
                              (IF kept[k] = args.paid_by THEN args.amount ELSE 0)
                        /\ users[k].owed_share.val.num * Len(L)
                              = args.amount * users[k].owed_share.val.den

\* a draft was submitted from which a participant was dropped, with the payer kept
C2_Witness ==
    /\ IsExpenseOp /\ Done /\ Len(Calls("createExpense")) = 1
    /\ args.amount > 0
    /\ Len(args.participants) = 2
    /\ Len(Last(requests).payload.users) = 1
    /\ Last(requests).payload.users[1].paid_share.val.num = args.amount

RECURSIVE SumPaid(_)
SumPaid(users) ==
    IF users = <<>> THEN Zero
    ELSE RatAdd(Head(users).paid_share.val, SumPaid(Tail(users)))

RECURSIVE SumOwed(_)
SumOwed(users) ==
    IF users = <<>> THEN Zero
    ELSE RatAdd(Head(users).owed_share.val, SumOwed(Tail(users)))

Divisible(A, n) == A % n = 0

\* C3 as stated: every submitted draft has paid shares summing to the total
\* amount and, when the amount is divisible by the number of participants,
\* owed shares summing to the total amount.
C3_Original ==
    IsExpenseOp =>
        \A n \in 1..Len(requests) :
            requests[n].call = "createExpense" =>
                LET users == requests[n].payload.users
                    A == Rat(args.amount, 1)
                IN /\ SumPaid(users) = A
                   /\ Divisible(args.amount, Len(args.participants)) => SumOwed(users) = A

\* C3 amended: a submitted draft has paid shares summing to the total amount
\* when exactly one retained participant is named paid_by, and owed shares
\* summing to the total amount when no participant was dropped and the amount
\* is divisible by the number of participants.
C3_BalancedDraft ==
    IsExpenseOp =>
        \A n \in 1..Len(requests) :
            requests[n].call = "createExpense" =>
                LET users == requests[n].payload.users
                    L == args.participants
                    kept == Retained(L, dict_info)
                    payers == {k \in 1..Len(kept) : kept[k] = args.paid_by}
                    A == Rat(args.amount, 1)
                IN /\ Cardinality(payers) = 1 => SumPaid(users) = A
                   /\ (Len(kept) = Len(L) /\ Divisible(args.amount, Len(L)))
                        => SumOwed(users) = A

\* a balanced draft of two entries with a nonzero total was submitted
C3_Witness ==
    /\ IsExpenseOp /\ Done /\ Len(Calls("createExpense")) = 1
    /\ args.amount = 2
    /\ Len(args.participants) = 2
    /\ Len(Last(requests).payload.users) = 2
    /\ args.participants[2] = args.paid_by
    /\ args.participants[1] # args.paid_by
    /\ SumPaid(Last(requests).payload.users) = Rat(2, 1)
    /\ SumOwed(Last(requests).payload.users) = Rat(2, 1)

GroupCreated ==
    /\ IsGroupOp /\ Len(requests) >= 1
    /\ requests[1].call = "createGroup"
    /\ ~requests[1].raised
    /\ ~requests[1].reported

\* the add-member request of member k is the first one to report errors
FirstAddFailureAt(k) ==
    /\ GroupCreated /\ Done
    /\ Len(Calls("addUserToGroup")) = k
    /\ ~Last(requests).raised
    /\ Last(requests).reported

NamesMember(r, k) ==
    /\ HasErrorKey(r)
    /\ Len(r.value.error) = 4
    /\ r.value.error[1] = "Failed to add user"
    /\ r.value.error[2] = args.first_names[k]
    /\ r.value.error[3] = args.last_names[k]

\* C4 as stated: when the add-member request of member k is the first to
\* report errors, the returned result holds exactly k-1 enrolled-member records
\* and names member k.
C4_Original ==
    \A k \in 1..(MaxMembers + 1) :
        FirstAddFailureAt(k) =>
            /\ NamesMember(result, k)
            /\ "members_added" \in DOMAIN result.value
            /\ Len(result.value.members_added) = k - 1

\* C4 amended: when the add-member request of member k is the first to report
\* errors, the returned result is a failure payload whose only key is "error",
\* naming member k; it holds no enrolled-member record.
C4_FailureNamesMember ==
    \A k \in 1..(MaxMembers + 1) :
        FirstAddFailureAt(k) =>
            /\ NamesMember(result, k)
            /\ DOMAIN result.value = {"error"}

\* the second member failed after the first one was enrolled and recorded
C4_Witness ==
    /\ FirstAddFailureAt(2)
    /\ Len(added_users) = 1
    /\ args.first_names[1] # args.first_names[2]

\* C5: the add-member requests made so far are the members of the input list
\* in input order, from the first one on; each but the last returned without
\* errors; there is none unless group creation returned without errors.
C5_AddRequestsArePrefix ==
    IsGroupOp =>
        LET adds == Calls("addUserToGroup")
        IN /\ Len(adds) > 0 => GroupCreated
           /\ \A n \in 1..Len(adds) :
                /\ requests[n + 1] = adds[n]
                /\ n <= Len(args.first_names)
                /\ n <= Len(args.last_names)
                /\ n <= Len(args.emails)
                /\ adds[n].payload = <<args.first_names[n], args.last_names[n], args.emails[n]>>
                /\ n < Len(adds) => (~adds[n].raised /\ ~adds[n].reported)

\* the first of two members reported errors and the second was never requested
C5_Witness ==
    /\ FirstAddFailureAt(1)
    /\ Len(args.first_names) = 2 /\ Len(args.last_names) = 2 /\ Len(args.emails) = 2

\* C6 as stated: every finished invocation of create_splitwise_expense made
\* exactly one create-expense call.
C6_Original ==
    (IsExpenseOp /\ Done) => Len(Calls("createExpense")) = 1

ReadsReturned ==
    /\ Len(requests) >= 2
    /\ requests[1].call = "getCurrentUser" /\ ~requests[1].raised
    /\ requests[2].call = "getFriends" /\ ~requests[2].raised

\* C6 amended: an invocation of create_splitwise_expense makes at most one
\* create-expense call, and a finished one made exactly one when the
\* participant list is not empty and both remote reads returned.
C6_AtMostOneWrite ==
    IsExpenseOp =>
        /\ Len(Calls("createExpense")) <= 1
        /\ (Done /\ args.participants # <<>> /\ ReadsReturned)
              => Len(Calls("createExpense")) = 1

\* the remote rejected the expense and the tool returned without a second call
C6_Witness ==
    /\ IsExpenseOp /\ Done /\ ReadsReturned
    /\ Len(requests) = 3
    /\ ~Last(requests).raised /\ Last(requests).errors = "NonEmpty"
    /\ HasErrorKey(result)

Min(x, y) == IF x < y THEN x ELSE y
LengthsDiffer ==
    ~(Len(args.first_names) = Len(args.last_names)
      /\ Len(args.last_names) = Len(args.emails))
\* the first position for which last_names or emails has no element
Shortest == Min(Len(args.last_names), Len(args.emails))
MissingElement == Shortest < Len(args.first_names)

\* C7 as stated: when the three lists do not all have the same length and
\* group creation succeeds, the tool ends with the index fault, returned as a
\* failure.
C7_Original ==
    (GroupCreated /\ Done /\ LengthsDiffer) => IsUnexpected(result, "IndexError")

\* C7 amended: when last_names or emails is shorter than first_names and group
\* creation succeeds, the tool never returns a success payload, and it ends
\* with the index fault, returned as a failure, once the loop reaches the
\* first position with a missing element; when neither is shorter than
\* first_names there is no index fault.
C7_IndexFault ==
    (GroupCreated /\ Done) =>
        /\ MissingElement => HasErrorKey(result)
        /\ (MissingElement /\ i = Shortest + 1) => IsUnexpected(result, "IndexError")
        /\ ~MissingElement => ~IsUnexpected(result, "IndexError")

\* one member was added, and the second has no last name: index fault
C7_Witness ==
    /\ GroupCreated /\ Done
    /\ Len(args.first_names) = 2 /\ Len(args.last_names) = 1 /\ Len(args.emails) = 2
    /\ Len(Calls("addUserToGroup")) = 1
    /\ Len(added_users) = 1
    /\ IsUnexpected(result, "IndexError")

\* C8: a success payload of create_splitwise_group lists one record for every
\* member of the input list, in input order, with the member's id, name and
\* email.
C8_AllMembersRecorded ==
    (IsGroupOp /\ Done /\ IsSuccessPayload(op, result)) =>
        LET added == result.value.members_added
        IN /\ Len(added) = Len(args.first_names)
           /\ \A k \in 1..Len(added) :
                /\ added[k].Id = UserId(k)
                /\ added[k].Name = <<args.first_names[k], args.last_names[k]>>
                /\ added[k].Email = args.emails[k]

\* the failure payload of a remote write
IsWriteFailure(r, call) ==
    /\ HasErrorKey(r)
    /\ r.value.error[1] = (CASE call = "createExpense" -> "Failed to add expense"
                             [] call = "createGroup" -> "Failed to create group"
                             [] call = "addUserToGroup" -> "Failed to add user")

ErrorsNonEmpty(r) ==
    IF r.call = "createExpense" THEN r.errors = "NonEmpty" ELSE r.reported

\* C9: a remote write that returned is treated as failed (the tool stops there
\* with the failure payload of that write) if and only if the error collection
\* it returned is non-empty.
C9_FailureIffErrorsNonEmpty ==
    \A n \in 1..Len(requests) :
        (requests[n].call \in {"createExpense", "createGroup", "addUserToGroup"}
         /\ ~requests[n].raised) =>
            ((n = Len(requests) /\ Done /\ IsWriteFailure(result, requests[n].call))
                <=> ErrorsNonEmpty(requests[n]))

\* C10: the identity mapping has exactly the current user's first name and
\* the friends' first names as keys, and a name maps to the id of the last
\* friend of the roster that bears it, or to the current user's id when no
\* friend bears it.
C10_IdentityMapping ==
    (IsExpenseOp /\ ReadsReturned) =>
        LET friends == requests[2].payload
            bearers(name) == {k \in 1..Len(friends) : friends[k].first = name}
        IN /\ DOMAIN dict_info = {me.first} \cup {friends[k].first : k \in 1..Len(friends)}
           /\ \A name \in DOMAIN dict_info :
                IF bearers(name) = {}
                THEN dict_info[name] = me.id
                ELSE \E k \in bearers(name) :
                        /\ \A j \in bearers(name) : j <= k
                        /\ dict_info[name] = friends[k].id

\* two friends and the current user all share one first name
C10_Witness ==
    /\ IsExpenseOp /\ ReadsReturned
    /\ Len(requests[2].payload) = 2
    /\ requests[2].payload[1].first = me.first
    /\ requests[2].payload[2].first = me.first
    /\ Cardinality(DOMAIN dict_info) = 1
    /\ dict_info[me.first] = FriendId(2)
====
